---------------------------- MODULE Spec2Model ----------------------------
(***************************************************************************)
(* Loose-object backend of git-odb: the header grammar parser              *)
(* (parse_header), the loader (Db::find) and the deferred-completion       *)
(* object handle (Object::parsed) of src/git-odb/src/loose/object.rs.      *)
(*                                                                         *)
(* Bytes are their ASCII codes.  The specifications are:                  *)
(*   SpecHeader  parse_header as a pure function over bounded inputs;      *)
(*   SpecPath    sha1_path as a pure function over bounded inputs;         *)
(*   Spec        one object file on disk, one find, then parsed() calls;   *)
(*   SpecBoth    the behaviours of SpecHeader and of Spec together;        *)
(*   SpecCalls   concurrent find calls on one store, step by step.         *)
(***************************************************************************)
EXTENDS Integers, Sequences, FiniteSets, TLC

VARIABLES
    hdr_input,      \* SpecHeader: the byte slice handed to parse_header
    hdr_enc,        \* SpecHeader: the (kind, size, payload) hdr_input encodes, or NoEnc
    hdr_result,     \* SpecHeader: what parse_header returned, or NoResult
    file,           \* Spec: the loose object file at the mapped path
    debug_build,    \* Spec: whether debug assertions are compiled in
    obj,            \* Spec: the Object handle returned by find, or NoObject
    find_result,    \* Spec: outcome of find ("pending" before the call)
    find_io,        \* Spec: what find did to the file and its buffers
    calls,          \* Spec: one record per parsed() call made on obj, in order
    path_id,        \* SpecPath: the 20-byte hash handed to sha1_path
    path_root,      \* SpecPath: the root handed to sha1_path, as path segments
    path_result,    \* SpecPath: what sha1_path returned, or NoPath
    callers,        \* SpecCalls: per concurrent find call, where it is and what it got
    scratch         \* SpecCalls: per call, its engine and its two buffers

vars == <<hdr_input, hdr_enc, hdr_result, file, debug_build, obj, find_result,
          find_io, calls, path_id, path_root, path_result, callers, scratch>>

hdr_vars == <<hdr_input, hdr_enc, hdr_result>>
obj_vars == <<file, debug_build, obj, find_result, find_io, calls>>
path_vars == <<path_id, path_root, path_result>>
call_vars == <<callers, scratch>>

---------------------------------------------------------------------------
(* Bounds of the model                                                     *)

\* longest arbitrary byte tail appended to a kind token in a raw header input
MaxTail == 4
\* largest size encoded by the round-trip action
MaxEncSize == 110
\* longest payload appended after an encoded header in SpecHeader
MaxEncPayload == 2
\* longest payload of an object file
MaxPayload == 5
\* most parsed() calls made on one handle
MaxCalls == 2
\* concurrent find calls on one store
NCallers == 2
\* the probe buffers of find, scaled down from loose::HEADER_READ_COMPRESSED_BYTES
\* and loose::HEADER_READ_UNCOMPRESSED_BYTES with their 1:2 proportion kept
HEADER_READ_COMPRESSED_BYTES == 5
HEADER_READ_UNCOMPRESSED_BYTES == 10

---------------------------------------------------------------------------
(* Bytes                                                                   *)

NUL == 0
SP == 32
PLUS == 43
MINUS == 45
ZERO == 48

BLOB_TOKEN   == <<98, 108, 111, 98>>            \* b"blob"
TREE_TOKEN   == <<116, 114, 101, 101>>          \* b"tree"
COMMIT_TOKEN == <<99, 111, 109, 109, 105, 116>> \* b"commit"
TAG_TOKEN    == <<116, 97, 103>>                \* b"tag"

Kinds == {"Blob", "Tree", "Commit", "Tag"}

Min(a, b) == IF a < b THEN a ELSE b
Max(a, b) == IF a > b THEN a ELSE b

\* s[from..] with a 0-based start, as a Rust slice
SliceFrom(s, from) == SubSeq(s, from + 1, Len(s))
\* s[..to] with a 0-based exclusive end
SliceTo(s, to) == SubSeq(s, 1, to)

---------------------------------------------------------------------------
(* parse_header and what it calls                                          *)

NoPos == -1

\* input.iter().position(|&b| b == byte): 0-based index of the first
\* occurrence, NoPos for None
Position(input, byte) ==
    IF \E i \in 1..Len(input) : input[i] = byte
    THEN (CHOOSE i \in 1..Len(input) :
              /\ input[i] = byte
              /\ \A j \in 1..(i - 1) : input[j] # byte) - 1
    ELSE NoPos

\* header.split(|&b| b == sep): every maximal run between separators, in
\* order; a slice without separator (the empty slice included) is one token
RECURSIVE Split(_, _)
Split(header, sep) ==
    LET p == Position(header, sep)
    IN  IF p = NoPos
        THEN <<header>>
        ELSE <<SliceTo(header, p)>> \o Split(SliceFrom(header, p + 1), sep)

\* object::Kind::from_bytes: the four kind names, anything else is an error
KindFromBytes(token) ==
    CASE token = TAG_TOKEN    -> [ok |-> TRUE, kind |-> "Tag"]
      [] token = COMMIT_TOKEN -> [ok |-> TRUE, kind |-> "Commit"]
      [] token = TREE_TOKEN   -> [ok |-> TRUE, kind |-> "Tree"]
      [] token = BLOB_TOKEN   -> [ok |-> TRUE, kind |-> "Blob"]
      [] OTHER                -> [ok |-> FALSE, kind |-> "None"]

\* char::to_digit(10): the digit's value, -1 for None
ToDigit(byte) == IF byte >= ZERO /\ byte <= ZERO + 9 THEN byte - ZERO ELSE -1

IsDigits(token) == \A i \in 1..Len(token) : ToDigit(token[i]) >= 0

\* the accumulation loop of btou: result = result * 10 + digit.  The checked
\* multiplication and addition overflow a usize only from 20 digits on, which
\* no token of the model reaches.
RECURSIVE Accumulate(_, _)
Accumulate(digits, result) ==
    IF digits = <<>> THEN result
    ELSE Accumulate(Tail(digits), result * 10 + ToDigit(Head(digits)))

\* btoi::btou::<usize>: no sign allowed
Btou(bytes) ==
    IF bytes = <<>> THEN [ok |-> FALSE, val |-> 0, err |-> "Empty"]
    ELSE IF ~IsDigits(bytes) THEN [ok |-> FALSE, val |-> 0, err |-> "InvalidDigit"]
    ELSE [ok |-> TRUE, val |-> Accumulate(bytes, 0), err |-> "None"]

\* btoi::btoi::<usize>: an optional leading sign.  '+' hands the rest to
\* btou; '-' accumulates by checked subtraction from zero, which on an
\* unsigned type succeeds only while every digit is 0.
Btoi(bytes) ==
    IF bytes = <<>> THEN [ok |-> FALSE, val |-> 0, err |-> "Empty"]
    ELSE IF Head(bytes) = PLUS THEN Btou(Tail(bytes))
    ELSE IF Head(bytes) = MINUS THEN
        LET digits == Tail(bytes)
        IN  IF digits = <<>> THEN [ok |-> FALSE, val |-> 0, err |-> "Empty"]
            ELSE IF \A i \in 1..Len(digits) : ToDigit(digits[i]) = 0
                 THEN [ok |-> TRUE, val |-> 0, err |-> "None"]
            ELSE LET bad == CHOOSE i \in 1..Len(digits) :
                                /\ ToDigit(digits[i]) # 0
                                /\ \A j \in 1..(i - 1) : ToDigit(digits[j]) = 0
                 IN  [ok |-> FALSE, val |-> 0,
                      err |-> IF ToDigit(digits[bad]) < 0 THEN "InvalidDigit"
                              ELSE "NegOverflow"]
    ELSE Btou(bytes)

HeaderErr(tag, number) ==
    [tag |-> tag, kind |-> "None", size |-> 0, header_size |-> 0, number |-> number]

\* mutant of HeaderOk: the NUL byte not accounted for
HeaderOkNoNul(kind, size, header_end) ==
    [tag |-> "Ok", kind |-> kind, size |-> size, header_size |-> header_end,
     number |-> <<>>]

\* the Ok((kind, size, header_end + 1)) of parse_header: the offset skips the
\* NUL byte itself
HeaderOk(kind, size, header_end) ==
    [tag |-> "Ok", kind |-> kind, size |-> size, header_size |-> header_end + 1,
     number |-> <<>>]

\* parse_header(input) -> Result<(Kind, usize, usize), Error>
parse_header(input) ==
    LET header_end == Position(input, NUL)
    IN  IF header_end = NoPos THEN HeaderErr("InvalidHeader", <<>>)
        ELSE
        LET header == SliceTo(input, header_end)
            split  == Split(header, SP)
        IN  IF Len(split) < 2 THEN HeaderErr("InvalidHeader", <<>>)
            ELSE
            LET kind == KindFromBytes(split[1])
                size == Btoi(split[2])
            IN  IF ~kind.ok THEN HeaderErr("ObjectHeader", <<>>)
                ELSE IF ~size.ok THEN HeaderErr("ParseIntegerError", split[2])
                ELSE HeaderOk(kind.kind, size.val, header_end)

---------------------------------------------------------------------------
(* The on-disk header "<kind> <size>\0"                                    *)

KindToken(kind) ==
    CASE kind = "Tag"    -> TAG_TOKEN
      [] kind = "Commit" -> COMMIT_TOKEN
      [] kind = "Tree"   -> TREE_TOKEN
      [] kind = "Blob"   -> BLOB_TOKEN

\* the decimal digits of n, most significant first, no sign, no padding
RECURSIVE ToDecimal(_)
ToDecimal(n) ==
    IF n < 10 THEN <<ZERO + n>>
    ELSE ToDecimal(n \div 10) \o <<ZERO + (n % 10)>>

EncodeHeader(kind, size) == KindToken(kind) \o <<SP>> \o ToDecimal(size) \o <<NUL>>

---------------------------------------------------------------------------
(* The decompression engine zlib::Inflate.  A compressed byte is a unit of *)
(* the stream: a data unit that inflates to one or more bytes, the         *)
(* end-of-stream marker, or a byte that is no valid deflate data.          *)

DataUnit(bytes) == [t |-> "data", out |-> bytes]
EOS    == [t |-> "eos", out |-> <<>>]
BAD    == [t |-> "bad", out |-> <<>>]
\* a 0 byte of a zero-initialised buffer that no read has overwritten
ZEROB  == [t |-> "zero", out |-> <<>>]
\* a byte of capacity exposed by set_len and not written since
UNINITB == [t |-> "uninit", out |-> <<>>]
Uninit == -1

\* One pass of the decoder over input[i..] with `out` already written into
\* an output region of `cap` bytes.  It stops at the end-of-stream marker
\* (is_done), at malformed data (err), when the output region is full, or
\* when the input is exhausted.
RECURSIVE Inflate(_, _, _, _)
Inflate(input, i, out, cap) ==
    IF i > Len(input)
    THEN [err |-> FALSE, is_done |-> FALSE, out |-> out, consumed_in |-> i - 1]
    ELSE
    LET unit == input[i]
        room == cap - Len(out)
    IN  CASE unit.t = "eos" ->
                [err |-> FALSE, is_done |-> TRUE, out |-> out, consumed_in |-> i]
          [] unit.t = "data" /\ room = 0 ->
                [err |-> FALSE, is_done |-> FALSE, out |-> out, consumed_in |-> i - 1]
          [] unit.t = "data" /\ Len(unit.out) > room ->
                [err |-> FALSE, is_done |-> FALSE,
                 out |-> out \o SubSeq(unit.out, 1, room), consumed_in |-> i]
          [] unit.t = "data" ->
                Inflate(input, i + 1, out \o unit.out, cap)
          [] OTHER ->
                [err |-> TRUE, is_done |-> FALSE, out |-> out, consumed_in |-> i - 1]

\* Inflate::once(input, out): single shot; an incomplete stream is no error
InflateOnce(input, cap) == Inflate(input, 1, <<>>, cap)

\* Inflate::all_till_done(input, out): drive until the output region is
\* written in full or the stream ends; input exhausted before either is an
\* error
InflateAllTillDone(input, cap) ==
    LET r == Inflate(input, 1, <<>>, cap)
    IN  IF ~r.err /\ ~r.is_done /\ Len(r.out) < cap
        THEN [r EXCEPT !.err = TRUE]
        ELSE r

\* the bytes of `buf` after a Cursor over it received `written`
Overwrite(buf, written) ==
    [i \in 1..Len(buf) |-> IF i <= Len(written) THEN written[i] ELSE buf[i]]

\* SmallVec::set_len(n) on a buffer with capacity >= n: shorter keeps the
\* prefix, longer exposes capacity that holds `fresh`
SetLen(buf, n, fresh) ==
    [i \in 1..n |-> IF i <= Len(buf) THEN buf[i] ELSE fresh]

---------------------------------------------------------------------------
(* sha1_path                                                               *)

HASH_LEN == 20
HEX_LEN == 40
LOWER_A == 97

\* a variant of the digit table with capital letters
HexCharUpper(n) == IF n < 10 THEN ZERO + n ELSE LOWER_A - 32 + (n - 10)

\* the digit table of write_hex, "0123456789abcdef"
HexChar(n) == IF n < 10 THEN ZERO + n ELSE LOWER_A + (n - 10)

\* Buf([0u8; 40], 0)
NewBuf == [bytes |-> [i \in 1..HEX_LEN |-> 0], cursor |-> 0, panicked |-> FALSE]

\* Buf::write_str: copy s to the cursor and advance it; the slice
\* self.0[self.1..self.1 + len] panics when it ends behind the array
WriteStr(buf, s) ==
    IF buf.panicked \/ buf.cursor + Len(s) > HEX_LEN
    THEN [buf EXCEPT !.panicked = TRUE]
    ELSE [bytes |-> [i \in 1..HEX_LEN |->
                       IF i > buf.cursor /\ i <= buf.cursor + Len(s)
                       THEN s[i - buf.cursor] ELSE buf.bytes[i]],
          cursor |-> buf.cursor + Len(s),
          panicked |-> FALSE]

\* id.write_hex(&mut buf): for every byte, one write of the high digit and
\* one of the low digit
RECURSIVE WriteHex(_, _, _)
WriteHex(id, i, buf) ==
    IF i > Len(id) THEN buf
    ELSE WriteHex(id, i + 1,
                  WriteStr(WriteStr(buf, <<HexChar(id[i] \div 16)>>),
                           <<HexChar(id[i] % 16)>>))

\* PathBuf::push of a relative segment
Push(root, segment) == Append(root, segment)

NoPath == <<<<-1>>>>
PathPanic == <<<<-2>>>>

\* a path is the sequence of its segments, each a sequence of bytes
sha1_path(id, root) ==
    LET buf == WriteHex(id, 1, NewBuf)
    IN  IF buf.panicked THEN PathPanic
        ELSE Push(Push(root, SliceTo(buf.bytes, 2)), SliceFrom(buf.bytes, 2))

\* hashes whose first byte is b1, second b2 and all others b3
HashOf(b1, b2, b3) ==
    [i \in 1..HASH_LEN |-> IF i = 1 THEN b1 ELSE IF i = 2 THEN b2 ELSE b3]

\* "objects"
SampleRoot == <<<<111, 98, 106, 101, 99, 116, 115>>>>
SampleId == HashOf(171, 1, 255)

---------------------------------------------------------------------------
(* The object file on disk                                                 *)

\* the file find opens: the path mapped from the hash that is looked up
PATH == sha1_path(SampleId, SampleRoot)

\* a payload of n bytes starting with `first`
PayloadOf(n, first) == [i \in 1..n |-> IF i = 1 THEN first ELSE 97 + i]

Payloads == {<<>>} \cup {PayloadOf(n, first) : n \in 1..MaxPayload, first \in {111, 120}}

\* the size a header declares: the payload's length, one less or one more
DeclaredSizes(payload) ==
    {n \in {Len(payload) - 1, Len(payload), Len(payload) + 1} : n >= 0}

RECURSIVE Chunks(_, _)
Chunks(plain, ratio) ==
    IF plain = <<>> THEN <<>>
    ELSE <<DataUnit(SubSeq(plain, 1, Min(ratio, Len(plain))))>>
         \o Chunks(SubSeq(plain, Min(ratio, Len(plain)) + 1, Len(plain)), ratio)

\* a well-formed stream: `ratio` bytes to a compressed byte, then the marker
Compress(plain, ratio) == Chunks(plain, ratio) \o <<EOS>>

Ratios == {1, 2, 3}

\* the stream itself, the stream cut short, the stream with a damaged byte
Variants(data) ==
    {data}
    \cup {SubSeq(data, 1, k) : k \in {0, Len(data) - 2, Len(data) - 1}}
    \cup {[data EXCEPT ![i] = BAD] : i \in {1, Len(data) - 1}}

NoFile == [exists |-> FALSE, kind |-> "None", declared |-> 0, payload |-> <<>>,
           ratio |-> 0, data |-> <<>>]

FilesOf(k, p, r) ==
    UNION {
      {[exists |-> TRUE, kind |-> k, declared |-> d, payload |-> p,
        ratio |-> r, data |-> v] :
           v \in Variants(Compress(EncodeHeader(k, d) \o p, r))} :
      d \in DeclaredSizes(p) }

Files ==
    {NoFile} \cup UNION {FilesOf(k, p, r) : k \in Kinds, p \in Payloads, r \in Ratios}

FilePlain(f) == EncodeHeader(f.kind, f.declared) \o f.payload
WellFormed(f) == f.exists /\ f.data = Compress(FilePlain(f), f.ratio)

---------------------------------------------------------------------------
(* Db::find                                                                *)

NoObject ==
    [kind |-> "None", size |-> 0, decompressed_data |-> <<>>, dcap |-> 0,
     compressed_data |-> <<>>, ccap |-> 0, header_size |-> 0, path |-> <<>>,
     is_decompressed |-> FALSE]

Pending == [tag |-> "Pending", action |-> "", path |-> <<>>, number |-> <<>>]
FindOk == [tag |-> "Ok", action |-> "", path |-> <<>>, number |-> <<>>]
\* a variant that reports the store's root instead of the mapped path
IoErrStoreRoot(action) ==
    [tag |-> "Io", action |-> action, path |-> SampleRoot, number |-> <<>>]

IoErr(action) == [tag |-> "Io", action |-> action, path |-> PATH, number |-> <<>>]
FindErr(tag, number) == [tag |-> tag, action |-> "", path |-> <<>>, number |-> number]

NoIo == [ops |-> <<>>, bytes_read |-> 0, probe_out |-> <<>>]

\* the file-system failures a call can meet
Faults == {"none", "open", "read", "read metadata", "read_exact"}

\* what istream.read(&mut compressed[..]) may return: at end of file 0,
\* otherwise at least one byte and at most what the buffer and the file hold
ReadChoices(f) ==
    IF Len(f.data) = 0 THEN {0}
    ELSE 1..Min(HEADER_READ_COMPRESSED_BYTES, Len(f.data))

\* mutant of IsDeferred: the Blob arm handled like the other kinds
IsDeferredNever(kind) == FALSE

\* the arm of `match kind` that defers: a Blob is reopened when needed
IsDeferred(kind) == kind = "Blob"

\* the retained path: Some(path) for a Blob, None for the other kinds
RetainedPath(kind) == IF IsDeferred(kind) THEN PATH ELSE <<>>

\* mutant of ReadExact: the remainder written at the right place but read
\* from the start of the file
ReadExactFromStart(f, compressed, bytes_read) ==
    [i \in 1..Len(compressed) |->
        IF i > bytes_read THEN f.data[i - bytes_read] ELSE compressed[i]]

\* input_stream.read_exact(&mut compressed[bytes_read..]): the file's bytes
\* from where the probe read stopped
ReadExact(f, compressed, bytes_read) ==
    [i \in 1..Len(compressed) |->
        IF i > bytes_read THEN f.data[i] ELSE compressed[i]]

\* the match on kind: Tree, Commit and Tag query the file size and read what
\* the probe did not; Blob touches neither the file nor the buffers
FindRemainder(f, kind, compressed, bytes_read, fault) ==
    IF IsDeferred(kind)
    THEN [err |-> "none", ops |-> <<>>, compressed |-> compressed,
          ccap |-> HEADER_READ_COMPRESSED_BYTES]
    ELSE IF fault = "read metadata"
    THEN [err |-> "read metadata", ops |-> <<"metadata">>, compressed |-> compressed,
          ccap |-> HEADER_READ_COMPRESSED_BYTES]
    ELSE
    LET fsize == Len(f.data)
        cap   == HEADER_READ_COMPRESSED_BYTES
    IN  IF bytes_read = fsize
        THEN [err |-> "none", ops |-> <<"metadata">>, compressed |-> compressed,
              ccap |-> cap]
        ELSE
        LET ccap  == IF cap < fsize THEN fsize ELSE cap
            grown == SetLen(compressed, fsize, UNINITB)
        IN  IF fault = "read_exact"
            THEN [err |-> "read", ops |-> <<"metadata", "read_exact">>,
                  compressed |-> grown, ccap |-> ccap]
            ELSE [err |-> "none", ops |-> <<"metadata", "read_exact">>,
                  compressed |-> ReadExact(f, grown, bytes_read),
                  ccap |-> ccap]

\* mutant of FindHandle: the engine's is_done not copied into the handle
FindHandleFlagLost(hdr, decompressed, rest, is_done) ==
    [kind |-> hdr.kind, size |-> hdr.size,
     decompressed_data |-> decompressed, dcap |-> HEADER_READ_UNCOMPRESSED_BYTES,
     compressed_data |-> rest.compressed, ccap |-> rest.ccap,
     header_size |-> hdr.header_size, path |-> RetainedPath(hdr.kind),
     is_decompressed |-> FALSE]

\* the Object find returns
FindHandle(hdr, decompressed, rest, is_done) ==
    [kind |-> hdr.kind, size |-> hdr.size,
     decompressed_data |-> decompressed, dcap |-> HEADER_READ_UNCOMPRESSED_BYTES,
     compressed_data |-> rest.compressed, ccap |-> rest.ccap,
     header_size |-> hdr.header_size, path |-> RetainedPath(hdr.kind),
     is_decompressed |-> is_done]

\* a variant that hands out a handle with the probe buffers on failure
FindFailedWithHandle(result, ops, bytes_read, probe_out) ==
    [result |-> result,
     obj |-> [NoObject EXCEPT !.dcap = HEADER_READ_UNCOMPRESSED_BYTES,
                              !.ccap = HEADER_READ_COMPRESSED_BYTES],
     io |-> [ops |-> ops, bytes_read |-> bytes_read, probe_out |-> probe_out]]

FindFailed(result, ops, bytes_read, probe_out) ==
    [result |-> result, obj |-> NoObject,
     io |-> [ops |-> ops, bytes_read |-> bytes_read, probe_out |-> probe_out]]

\* a variant that hands parse_header the whole zero-filled probe buffer
ProbePrefixWholeBuffer(decompressed, consumed_out) == decompressed

\* `&decompressed[..consumed_out]`: the part of the probe buffer that the
\* engine wrote
ProbePrefix(decompressed, consumed_out) == SliceTo(decompressed, consumed_out)

\* find(id) on file f when the file system fails at `fault` (if the call gets
\* there) and the probe read returns bytes_read bytes
FindOutcome(f, fault, bytes_read) ==
    IF ~f.exists \/ fault = "open"
    THEN FindFailed(IoErr("open"), <<"open">>, 0, <<>>)
    ELSE IF fault = "read"
    THEN FindFailed(IoErr("read"), <<"open", "read">>, 0, <<>>)
    ELSE
    LET compressed == [i \in 1..HEADER_READ_COMPRESSED_BYTES |->
                          IF i <= bytes_read THEN f.data[i] ELSE ZEROB]
        probe == InflateOnce(SubSeq(compressed, 1, bytes_read),
                             HEADER_READ_UNCOMPRESSED_BYTES)
    IN  IF probe.err
        THEN FindFailed([tag |-> "DecompressFile", action |-> "", path |-> PATH,
                         number |-> <<>>],
                        <<"open", "read", "once">>, bytes_read, <<>>)
        ELSE
        LET decompressed == Overwrite([i \in 1..HEADER_READ_UNCOMPRESSED_BYTES |-> 0],
                                      probe.out)
            consumed_out == Len(probe.out)
            hdr == parse_header(ProbePrefix(decompressed, consumed_out))
        IN  IF hdr.tag # "Ok"
            THEN FindFailed(FindErr(hdr.tag, hdr.number),
                            <<"open", "read", "once", "parse_header">>, bytes_read,
                            probe.out)
            ELSE
            LET rest == FindRemainder(f, hdr.kind, compressed, bytes_read, fault)
                ops  == <<"open", "read", "once", "parse_header">> \o rest.ops
            IN  IF rest.err # "none"
                THEN FindFailed(IoErr(rest.err), ops, bytes_read, probe.out)
                ELSE [result |-> FindOk,
                      obj |-> FindHandle(hdr, decompressed, rest, probe.is_done),
                      io |-> [ops |-> ops, bytes_read |-> bytes_read,
                             probe_out |-> probe.out]]

Find ==
    /\ find_result = Pending
    /\ \E fault \in Faults, bytes_read \in ReadChoices(file) :
          \E outcome \in {FindOutcome(file, fault, bytes_read)} :
              /\ find_result' = outcome.result
              /\ obj' = outcome.obj
              /\ find_io' = outcome.io
    /\ UNCHANGED <<file, debug_build, calls, hdr_vars, path_vars, call_vars>>

---------------------------------------------------------------------------
(* Object::parsed                                                          *)

\* borrowed::Tag::from_bytes: a tag body starts with its "object" line; the
\* parsed tag borrows from, and so is determined by, the bytes it was given
TagFromBytes(bytes) ==
    IF bytes # <<>> /\ bytes[1] = 111
    THEN [outcome |-> "Ok", value |-> bytes]
    ELSE [outcome |-> "ParseTag", value |-> <<>>]

\* a variant that neither sets the flag nor releases the compressed buffer
CompletedFlagNeverSet(o, buf, dcap, is_done, debug) ==
    [obj |-> [o EXCEPT !.decompressed_data = buf, !.dcap = dcap], exit |-> "done"]

\* what the completion branch leaves when all_till_done returned Ok: the flag
\* copied from the engine, then the debug assertion, then the release of the
\* compressed buffer
Completed(o, buf, dcap, is_done, debug) ==
    IF debug /\ ~is_done
    THEN [obj |-> [o EXCEPT !.decompressed_data = buf, !.dcap = dcap,
                            !.is_decompressed = is_done],
          exit |-> "panic_debug_assert"]
    ELSE [obj |-> [o EXCEPT !.decompressed_data = buf, !.dcap = dcap,
                            !.is_decompressed = is_done,
                            !.compressed_data = <<>>,
                            !.ccap = HEADER_READ_COMPRESSED_BYTES],
          exit |-> "done"]

\* a variant without the `?` behind all_till_done
CompleteIgnoringError(o, debug) ==
    IF o.is_decompressed
    THEN [obj |-> o, exit |-> "skip"]
    ELSE
    LET total_size == o.header_size + o.size
        dcap == Max(o.dcap, total_size)
        r    == InflateAllTillDone(o.compressed_data, total_size)
        buf  == Overwrite(SetLen(o.decompressed_data, total_size, Uninit), r.out)
    IN  Completed(o, buf, dcap, TRUE, debug)

\* a variant that releases the compressed buffer before it returns the error
CompleteReleasingOnError(o, debug) ==
    IF o.is_decompressed
    THEN [obj |-> o, exit |-> "skip"]
    ELSE
    LET total_size == o.header_size + o.size
        dcap == Max(o.dcap, total_size)
        r    == InflateAllTillDone(o.compressed_data, total_size)
        buf  == Overwrite(SetLen(o.decompressed_data, total_size, Uninit), r.out)
    IN  IF r.err
        THEN [obj |-> [o EXCEPT !.decompressed_data = buf, !.dcap = dcap,
                                !.compressed_data = <<>>],
              exit |-> "Decompress"]
        ELSE Completed(o, buf, dcap, r.is_done, debug)

\* the `if !self.is_decompressed` block
Complete(o, debug) ==
    IF o.is_decompressed
    THEN [obj |-> o, exit |-> "skip"]
    ELSE
    LET total_size == o.header_size + o.size
        cap  == o.dcap
        dcap == IF cap < total_size
                THEN Len(o.decompressed_data) + (total_size - cap)
                ELSE cap
        exposed == SetLen(o.decompressed_data, total_size, Uninit)
        r    == InflateAllTillDone(o.compressed_data, total_size)
        buf  == Overwrite(exposed, r.out)
    IN  IF r.err
        THEN [obj |-> [o EXCEPT !.decompressed_data = buf, !.dcap = dcap],
              exit |-> "Decompress"]
        ELSE Completed(o, buf, dcap, r.is_done, debug)

\* the structured view of the payload, by kind
ParseKind(kind, bytes) ==
    IF kind = "Tag" THEN TagFromBytes(bytes)
    ELSE [outcome |-> "panic_unimplemented", value |-> <<>>]

\* parsed(&mut self): the handle it leaves and what the caller gets.
\* `complete_at_entry` records the completion flag the call found,
\* `inflated` whether it ran the decompression engine and `bytes` the slice
\* it handed to the structured parser.
ParsedOutcome(o, debug) ==
    IF o.kind = "Blob"
    THEN [obj |-> o,
          call |-> [outcome |-> "panic_unimplemented", value |-> <<>>,
                    complete_at_entry |-> o.is_decompressed,
                    inflated |-> FALSE, bytes |-> <<>>]]
    ELSE
    LET c == Complete(o, debug)
    IN  IF c.exit \in {"Decompress", "panic_debug_assert"}
        THEN [obj |-> c.obj,
              call |-> [outcome |-> c.exit, value |-> <<>>,
                        complete_at_entry |-> o.is_decompressed,
                        inflated |-> TRUE, bytes |-> <<>>]]
        ELSE
        LET bytes == SliceFrom(c.obj.decompressed_data, c.obj.header_size)
            res   == ParseKind(c.obj.kind, bytes)
        IN  [obj |-> c.obj,
             call |-> [outcome |-> res.outcome, value |-> res.value,
                       complete_at_entry |-> o.is_decompressed,
                       inflated |-> (c.exit = "done"), bytes |-> bytes]]

Panicked ==
    \E i \in 1..Len(calls) :
        calls[i].outcome \in {"panic_unimplemented", "panic_debug_assert"}

Parsed ==
    /\ find_result = FindOk
    /\ Len(calls) < MaxCalls
    /\ ~Panicked
    /\ \E outcome \in {ParsedOutcome(obj, debug_build)} :
           /\ obj' = outcome.obj
           /\ calls' = Append(calls, outcome.call)
    /\ UNCHANGED <<file, debug_build, find_result, find_io, hdr_vars, path_vars, call_vars>>

---------------------------------------------------------------------------
(* SpecHeader: parse_header over bounded inputs                            *)

NoEnc == [kind |-> "None", size |-> 0, payload |-> <<>>]
NoResult == HeaderErr("NoResult", <<>>)

\* bytes of an arbitrary tail: space, NUL, two digits, a letter, both signs
TailBytes == {SP, NUL, ZERO, ZERO + 1, 97, PLUS, MINUS}
\* what an input starts with: nothing, a kind name, an unknown name, a kind
\* name and a size
KindPrefixes == {<<>>, TAG_TOKEN, <<116, 97, 98>>, TAG_TOKEN \o <<SP, ZERO + 1>>}

SeqsUpTo(S, n) == UNION {[1..k -> S] : k \in 0..n}

HeaderInputs == {p \o t : p \in KindPrefixes, t \in SeqsUpTo(TailBytes, MaxTail)}

ObjIdle ==
    /\ file = NoFile
    /\ debug_build = FALSE
    /\ obj = NoObject
    /\ find_result = Pending
    /\ find_io = NoIo
    /\ calls = <<>>

CallsIdle == callers = <<>> /\ scratch = <<>>

PathIdle ==
    /\ path_id = SampleId
    /\ path_root = SampleRoot
    /\ path_result = NoPath

EncChoices ==
    [kind : Kinds, size : 0..MaxEncSize,
     payload : SeqsUpTo({NUL, SP, ZERO + 1}, MaxEncPayload)]

\* either a raw byte slice, or a (kind, size, payload) still to be encoded
InitHeader ==
    /\ \/ hdr_input \in HeaderInputs /\ hdr_enc = NoEnc
       \/ hdr_input = <<>> /\ hdr_enc \in EncChoices
    /\ hdr_result = NoResult
    /\ ObjIdle
    /\ PathIdle
    /\ CallsIdle

\* write "<kind> <size>\0" followed by the payload
Encode ==
    /\ hdr_enc # NoEnc
    /\ hdr_input = <<>>
    /\ hdr_input' = EncodeHeader(hdr_enc.kind, hdr_enc.size) \o hdr_enc.payload
    /\ UNCHANGED <<hdr_enc, hdr_result, obj_vars, path_vars, call_vars>>

ParseHeader ==
    /\ hdr_result = NoResult
    /\ hdr_enc = NoEnc \/ hdr_input # <<>>
    /\ hdr_result' = parse_header(hdr_input)
    /\ UNCHANGED <<hdr_input, hdr_enc, obj_vars, path_vars, call_vars>>

NextHeader == Encode \/ ParseHeader

SpecHeader == InitHeader /\ [][NextHeader]_vars

---------------------------------------------------------------------------
(* SpecPath: sha1_path as a function of its two arguments                  *)

IdBytes == {0, 1, 10, 15, 16, 171, 255}
Ids == {HashOf(b1, b2, b3) : b1 \in IdBytes, b2 \in IdBytes, b3 \in IdBytes}
Roots == {<<>>, SampleRoot, <<<<114>>, <<111, 98, 106>>>>}

HeaderIdle == hdr_input = <<>> /\ hdr_enc = NoEnc /\ hdr_result = NoResult

InitPath ==
    /\ path_id \in Ids
    /\ path_root \in Roots
    /\ path_result = NoPath
    /\ HeaderIdle
    /\ ObjIdle
    /\ CallsIdle

Sha1Path ==
    /\ path_result = NoPath
    /\ path_result' = sha1_path(path_id, path_root)
    /\ UNCHANGED <<path_id, path_root, hdr_vars, obj_vars, call_vars>>

NextPath == Sha1Path

SpecPath == InitPath /\ [][NextPath]_vars

---------------------------------------------------------------------------
(* SpecCalls: concurrent find calls on one store, one step at a time       *)

Callers == 1..NCallers

\* a variant in which all calls work in the same engine and buffers
SlotShared(p) == 1

\* the engine and the buffers of a call are locals of that call
Slot(p) == p

\* the files the calls look up: a Tag and a Blob of three bytes, whole,
\* truncated or corrupt, or no file
CallFiles ==
    {NoFile} \cup {f \in Files : /\ f.kind \in {"Tag", "Blob"}
                                /\ f.ratio = 2
                                /\ Len(f.payload) = 3
                                /\ f.declared = 3}

\* zlib::Inflate::default() and the two zeroed arrays
NewScratch ==
    [compressed   |-> [i \in 1..HEADER_READ_COMPRESSED_BYTES |-> ZEROB],
     decompressed |-> [i \in 1..HEADER_READ_UNCOMPRESSED_BYTES |-> 0],
     consumed_out |-> 0,
     is_done      |-> FALSE]

NewCall ==
    [pc |-> "open", fault |-> "none", bytes_read |-> 0, hdr |-> NoResult,
     result |-> Pending, obj |-> NoObject]

InitCalls ==
    /\ file \in CallFiles
    /\ callers = [p \in Callers |-> NewCall]
    /\ scratch = [p \in Callers |-> NewScratch]
    /\ debug_build = FALSE
    /\ obj = NoObject
    /\ find_result = Pending
    /\ find_io = NoIo
    /\ calls = <<>>
    /\ HeaderIdle
    /\ PathIdle

\* the call returns Err: nothing of it is left but the error
Fail(p, fault, result) ==
    callers' = [callers EXCEPT ![p].pc = "done", ![p].fault = fault,
                               ![p].result = result]

\* the call returns Ok(Object { .. })
Return(p, compressed, ccap) ==
    LET own == scratch[Slot(p)]
        rest == [compressed |-> compressed, ccap |-> ccap]
    IN  callers' = [callers EXCEPT
                      ![p].pc = "done",
                      ![p].result = FindOk,
                      ![p].obj = FindHandle(callers[p].hdr, own.decompressed,
                                            rest, own.is_done)]

\* the locals are set up, then File::open
StepOpen(p) ==
    /\ callers[p].pc = "open"
    /\ \/ /\ Fail(p, "open", IoErr("open"))
          /\ UNCHANGED scratch
       \/ /\ file.exists
          /\ callers' = [callers EXCEPT ![p].pc = "read"]
          /\ scratch' = [scratch EXCEPT ![Slot(p)] = NewScratch]
    /\ UNCHANGED <<hdr_vars, obj_vars, path_vars>>

\* istream.read(&mut compressed[..])
StepRead(p) ==
    /\ callers[p].pc = "read"
    /\ \/ /\ Fail(p, "read", IoErr("read"))
          /\ UNCHANGED scratch
       \/ \E n \in ReadChoices(file) :
             /\ callers' = [callers EXCEPT ![p].pc = "once", ![p].bytes_read = n]
             /\ scratch' = [scratch EXCEPT ![Slot(p)].compressed =
                               [i \in 1..HEADER_READ_COMPRESSED_BYTES |->
                                   IF i <= n THEN file.data[i] ELSE @[i]]]
    /\ UNCHANGED <<hdr_vars, obj_vars, path_vars>>

\* deflate.once(&compressed[..bytes_read], &mut out)
StepOnce(p) ==
    /\ callers[p].pc = "once"
    /\ LET own == scratch[Slot(p)]
           probe == InflateOnce(SubSeq(own.compressed, 1, callers[p].bytes_read),
                                HEADER_READ_UNCOMPRESSED_BYTES)
       IN  IF probe.err
           THEN /\ Fail(p, "none", [tag |-> "DecompressFile", action |-> "",
                                    path |-> PATH, number |-> <<>>])
                /\ UNCHANGED scratch
           ELSE /\ callers' = [callers EXCEPT ![p].pc = "parse_header"]
                /\ scratch' = [scratch EXCEPT
                                 ![Slot(p)].decompressed = Overwrite(@, probe.out),
                                 ![Slot(p)].consumed_out = Len(probe.out),
                                 ![Slot(p)].is_done = probe.is_done]
    /\ UNCHANGED <<hdr_vars, obj_vars, path_vars>>

\* a variant in which a Blob goes on to the metadata query as well
AfterHeaderAlwaysReads(kind) == "metadata"

\* the match on kind: a Blob returns right away
AfterHeader(kind) == IF IsDeferred(kind) THEN "done" ELSE "metadata"

\* parse_header(&decompressed[..consumed_out])?
StepParseHeader(p) ==
    /\ callers[p].pc = "parse_header"
    /\ LET own == scratch[Slot(p)]
           hdr == parse_header(ProbePrefix(own.decompressed, own.consumed_out))
       IN  IF hdr.tag # "Ok"
           THEN Fail(p, "none", FindErr(hdr.tag, hdr.number))
           ELSE IF AfterHeader(hdr.kind) = "done"
           THEN callers' = [callers EXCEPT
                              ![p].pc = "done",
                              ![p].hdr = hdr,
                              ![p].result = FindOk,
                              ![p].obj = FindHandle(hdr, own.decompressed,
                                            [compressed |-> own.compressed,
                                             ccap |-> HEADER_READ_COMPRESSED_BYTES],
                                            own.is_done)]
           ELSE callers' = [callers EXCEPT ![p].pc = AfterHeader(hdr.kind),
                                           ![p].hdr = hdr]
    /\ UNCHANGED <<scratch, hdr_vars, obj_vars, path_vars>>

\* input_stream.metadata(), then either nothing more to read or the
\* compressed buffer grown to the file's size
StepMetadata(p) ==
    /\ callers[p].pc = "metadata"
    /\ LET own == scratch[Slot(p)]
           fsize == Len(file.data)
       IN  \/ /\ Fail(p, "read metadata", IoErr("read metadata"))
              /\ UNCHANGED scratch
           \/ /\ callers[p].bytes_read = fsize
              /\ Return(p, own.compressed, HEADER_READ_COMPRESSED_BYTES)
              /\ UNCHANGED scratch
           \/ /\ callers[p].bytes_read # fsize
              /\ callers' = [callers EXCEPT ![p].pc = "read_exact"]
              /\ scratch' = [scratch EXCEPT ![Slot(p)].compressed =
                                SetLen(@, fsize, UNINITB)]
    /\ UNCHANGED <<hdr_vars, obj_vars, path_vars>>

\* input_stream.read_exact(&mut compressed[bytes_read..])
StepReadExact(p) ==
    /\ callers[p].pc = "read_exact"
    /\ LET own == scratch[Slot(p)]
           fsize == Len(file.data)
           filled == ReadExact(file, own.compressed, callers[p].bytes_read)
       IN  \/ /\ Fail(p, "read_exact", IoErr("read"))
              /\ UNCHANGED scratch
           \/ /\ Return(p, filled, Max(HEADER_READ_COMPRESSED_BYTES, fsize))
              /\ scratch' = [scratch EXCEPT ![Slot(p)].compressed = filled]
    /\ UNCHANGED <<hdr_vars, obj_vars, path_vars>>

NextCalls ==
    \E p \in Callers :
        \/ StepOpen(p)
        \/ StepRead(p)
        \/ StepOnce(p)
        \/ StepParseHeader(p)
        \/ StepMetadata(p)
        \/ StepReadExact(p)

SpecCalls == InitCalls /\ [][NextCalls]_vars

---------------------------------------------------------------------------
(* Spec: one object file, one find, then parsed() calls on the handle      *)

Init ==
    /\ file \in Files
    /\ debug_build \in BOOLEAN
    /\ obj = NoObject
    /\ find_result = Pending
    /\ find_io = NoIo
    /\ calls = <<>>
    /\ hdr_input = <<>>
    /\ hdr_enc = NoEnc
    /\ hdr_result = NoResult
    /\ PathIdle
    /\ CallsIdle

Next == Find \/ Parsed

Spec == Init /\ [][Next]_vars

\* both developments side by side: a behaviour either parses one header
\* input or runs find and parsed() on one object file
HeaderMode == file = NoFile /\ debug_build = FALSE /\ find_result = Pending
ObjectMode == hdr_input = <<>> /\ hdr_enc = NoEnc /\ hdr_result = NoResult

NextBoth == (HeaderMode /\ NextHeader) \/ (ObjectMode /\ Next)

SpecBoth == (Init \/ InitHeader) /\ [][NextBoth]_vars

---------------------------------------------------------------------------
(* Claims about the handle (Spec)                                          *)

Found == find_result = FindOk
JustFound == Found /\ calls = <<>>
NonBlob == obj.kind \in {"Tree", "Commit", "Tag"}
FSize == Len(file.data)
ProbeOps == <<"open", "read", "once", "parse_header">>

\* C1: whenever the completion flag of a handle is true, its decompressed
\* buffer is exactly header_size + size bytes long and its compressed
\* buffer is empty.  Stated for the kinds parsed() completes (Tree, Commit,
\* Tag).
C1_CompleteMeansExactBuffers ==
    (Found /\ NonBlob /\ obj.is_decompressed) =>
        /\ Len(obj.decompressed_data) = obj.header_size + obj.size
        /\ obj.compressed_data = <<>>

\* C2: a find that parsed a Blob header did nothing to the file after the
\* probe read (no metadata query, no second read), left both buffers at
\* their probe size and retained the path; for the other kinds no path is
\* retained.
C2_BlobIsLazy ==
    Found =>
        /\ obj.kind = "Blob" =>
              /\ find_io.ops = ProbeOps
              /\ obj.ccap = HEADER_READ_COMPRESSED_BYTES
              /\ Len(obj.compressed_data) = HEADER_READ_COMPRESSED_BYTES
              /\ obj.dcap = HEADER_READ_UNCOMPRESSED_BYTES
              /\ Len(obj.decompressed_data) = HEADER_READ_UNCOMPRESSED_BYTES
              /\ obj.path = PATH
        /\ NonBlob => obj.path = <<>>

\* C2 witness: a Blob whose file is larger than the probe buffer was found
C2_Witness ==
    /\ Found
    /\ obj.kind = "Blob"
    /\ FSize > HEADER_READ_COMPRESSED_BYTES
    /\ Len(FilePlain(file)) > HEADER_READ_UNCOMPRESSED_BYTES

\* C3: a Blob handle only ever holds the probe prefix and is never in the
\* completed state, whatever the blob's size.
C3_BlobNeverComplete ==
    (Found /\ obj.kind = "Blob") =>
        /\ Len(obj.decompressed_data) = HEADER_READ_UNCOMPRESSED_BYTES
        /\ ~obj.is_decompressed

\* C4: once a parsed() call on a non-Blob handle has returned successfully,
\* every later call returns the same structured result and runs no
\* decompression.
C4_ParsedIdempotent ==
    \A i, j \in 1..Len(calls) :
        (i < j /\ calls[i].outcome = "Ok") =>
            /\ calls[j].outcome = "Ok"
            /\ calls[j].value = calls[i].value
            /\ ~calls[j].inflated

\* C5 as stated: after a successful find of a Tree, Commit or Tag the flag
\* is true whenever the whole compressed file fit in the probe read, and
\* false whenever the file is larger than the probe buffer.  Stated here
\* for well-formed files read by a full probe read only.
C5_FlagFollowsCompressedSize ==
    (JustFound /\ NonBlob /\ WellFormed(file)
       /\ find_io.bytes_read = Min(HEADER_READ_COMPRESSED_BYTES, FSize)) =>
        /\ FSize <= HEADER_READ_COMPRESSED_BYTES => obj.is_decompressed
        /\ FSize > HEADER_READ_COMPRESSED_BYTES => ~obj.is_decompressed

\* C5 amended: after a successful find of a Tree, Commit or Tag on a
\* well-formed file, the flag is true whenever the probe read returned the
\* whole compressed file and header plus payload fit in the probe output
\* buffer; it is false whenever the file is larger than the probe buffer or
\* header plus payload exceed the probe output buffer.
C5_FlagFollowsProbe ==
    (JustFound /\ NonBlob /\ WellFormed(file)) =>
        /\ (find_io.bytes_read = FSize
              /\ Len(FilePlain(file)) <= HEADER_READ_UNCOMPRESSED_BYTES)
             => obj.is_decompressed
        /\ FSize > HEADER_READ_COMPRESSED_BYTES => ~obj.is_decompressed
        /\ Len(FilePlain(file)) > HEADER_READ_UNCOMPRESSED_BYTES
             => ~obj.is_decompressed

\* C5 witness: the whole compressed file was read by the probe, its
\* decompressed form did not fit, and the flag is false
C5_Witness ==
    /\ JustFound /\ NonBlob /\ WellFormed(file)
    /\ find_io.bytes_read = FSize
    /\ Len(FilePlain(file)) > HEADER_READ_UNCOMPRESSED_BYTES
    /\ ~obj.is_decompressed

\* C6 as stated: after a successful find of a Tree, Commit or Tag the
\* compressed buffer is exactly the file's bytes, its length the file size.
\* Stated for well-formed files.
C6_CompressedIsExactlyTheFile ==
    (JustFound /\ NonBlob /\ WellFormed(file)) =>
        /\ obj.compressed_data = file.data
        /\ Len(obj.compressed_data) = FSize

\* C6 amended: after a successful find of a Tree, Commit or Tag the first
\* fsize bytes of the compressed buffer are the file's compressed bytes.
\* When bytes_read equals the file size there was no further I/O and the
\* buffer keeps its probe length, zero-filled behind the file's bytes;
\* otherwise there was exactly one exact read, into a buffer whose length is
\* the file size and whose capacity was grown to it when it was smaller.
C6_CompressedHoldsTheFile ==
    (JustFound /\ NonBlob) =>
        /\ SubSeq(obj.compressed_data, 1, FSize) = file.data
        /\ IF find_io.bytes_read = FSize
           THEN /\ find_io.ops = ProbeOps \o <<"metadata">>
                /\ Len(obj.compressed_data) = HEADER_READ_COMPRESSED_BYTES
                /\ \A i \in (FSize + 1)..HEADER_READ_COMPRESSED_BYTES :
                       obj.compressed_data[i] = ZEROB
                /\ obj.ccap = HEADER_READ_COMPRESSED_BYTES
           ELSE /\ find_io.ops = ProbeOps \o <<"metadata", "read_exact">>
                /\ Len(obj.compressed_data) = FSize
                /\ obj.ccap = Max(HEADER_READ_COMPRESSED_BYTES, FSize)

\* C6 witness: the probe read stopped short of a file larger than the probe
\* buffer and the remainder was read
C6_Witness ==
    /\ JustFound /\ NonBlob
    /\ FSize > HEADER_READ_COMPRESSED_BYTES
    /\ find_io.bytes_read < HEADER_READ_COMPRESSED_BYTES
    /\ find_io.ops = ProbeOps \o <<"metadata", "read_exact">>

\* C7: parsed() on a Commit handle whose flag is already true returns
\* successfully, with the view of the payload bytes, without decompressing.
C7_CompleteCommitParses ==
    \A i \in 1..Len(calls) :
        (obj.kind = "Commit" /\ calls[i].complete_at_entry) =>
            /\ calls[i].outcome = "Ok"
            /\ ~calls[i].inflated

---------------------------------------------------------------------------
(* Claims about parse_header (SpecHeader)                                  *)

HeaderParsed == hdr_result # NoResult
HasNul == Position(hdr_input, NUL) # NoPos
\* the space-separated tokens before the first NUL
Tokens == Split(SliceTo(hdr_input, Position(hdr_input, NUL)), SP)
TwoNonEmptyTokens == Len(Tokens) = 2 /\ Tokens[1] # <<>> /\ Tokens[2] # <<>>

\* C8: parse_header succeeds only if the bytes before the first NUL split
\* on space into exactly two non-empty tokens; a header of more than two
\* tokens fails with InvalidHeader.
C8_ExactlyTwoTokens ==
    (HeaderParsed /\ HasNul) =>
        /\ hdr_result.tag = "Ok" => TwoNonEmptyTokens
        /\ (Len(Tokens) > 2 /\ \A i \in 1..Len(Tokens) : Tokens[i] # <<>>
              /\ KindFromBytes(Tokens[1]).ok /\ IsDigits(Tokens[2]))
             => hdr_result.tag = "InvalidHeader"

\* C9: parse_header accepts a size token only if it is made of ASCII digits
\* alone; every other size token fails with ParseIntegerError carrying the
\* token's bytes.  Stated for headers of two tokens with a known kind.
C9_SizeIsDigitsOnly ==
    (HeaderParsed /\ HasNul /\ Len(Tokens) = 2 /\ KindFromBytes(Tokens[1]).ok) =>
        /\ hdr_result.tag = "Ok" => (Tokens[2] # <<>> /\ IsDigits(Tokens[2]))
        /\ ~(Tokens[2] # <<>> /\ IsDigits(Tokens[2])) =>
              (hdr_result.tag = "ParseIntegerError" /\ hdr_result.number = Tokens[2])

\* C10: parsing the encoding "<kind> <size>\0" of any kind and size,
\* followed by any payload, returns the kind, the size and the length of the
\* encoded header, which is the index of the first NUL plus one.
C10_HeaderRoundTrip ==
    (HeaderParsed /\ hdr_enc # NoEnc) =>
        /\ hdr_result.tag = "Ok"
        /\ hdr_result.kind = hdr_enc.kind
        /\ hdr_result.size = hdr_enc.size
        /\ hdr_result.header_size = Len(hdr_input) - Len(hdr_enc.payload)
        /\ hdr_result.header_size = Position(hdr_input, NUL) + 1

\* C10 witness: a three-digit size, with a payload that holds a NUL itself
C10_Witness ==
    /\ HeaderParsed
    /\ hdr_enc # NoEnc
    /\ hdr_enc.size >= 100
    /\ \E i \in 1..Len(hdr_enc.payload) : hdr_enc.payload[i] = NUL
    /\ hdr_result.tag = "Ok"

---------------------------------------------------------------------------
(* Claims about both parse_header and find (SpecBoth)                      *)

ParseReached == "parse_header" \in {find_io.ops[i] : i \in 1..Len(find_io.ops)}
NoNulIn(s) == Position(s, NUL) = NoPos

\* C11: parse_header fails with InvalidHeader on every input that holds no
\* NUL byte; and a find whose probe decompression produced no NUL fails with
\* InvalidHeader and returns no handle.
C11_NoNulIsInvalidHeader ==
    /\ (HeaderParsed /\ NoNulIn(hdr_input)) => hdr_result.tag = "InvalidHeader"
    /\ (ParseReached /\ NoNulIn(find_io.probe_out)) =>
          /\ find_result.tag = "InvalidHeader"
          /\ obj = NoObject

\* C11 witness: the probe of a well-formed file stopped inside the header,
\* after the kind and the space, and find failed
C11_Witness ==
    /\ WellFormed(file)
    /\ ParseReached
    /\ Len(find_io.probe_out) >= 4
    /\ NoNulIn(find_io.probe_out)
    /\ find_result.tag = "InvalidHeader"
    /\ obj = NoObject

---------------------------------------------------------------------------
(* Claims about sha1_path (SpecPath)                                       *)

PathMapped == path_result # NoPath
IsLowerHex(c) == c \in (ZERO..(ZERO + 9)) \cup (LOWER_A..(LOWER_A + 5))
HexValue(c) == IF c < LOWER_A THEN c - ZERO ELSE c - LOWER_A + 10

---------------------------------------------------------------------------
(* Claims about find and parsed(), continued (Spec)                        *)

FindEnded == find_result.tag # "Pending"
Ops == find_io.ops
LastOp == Ops[Len(Ops)]
FileSystemOps == {"open", "read", "metadata", "read_exact"}
ActionOf(op) ==
    CASE op = "open"       -> "open"
      [] op = "read"       -> "read"
      [] op = "read_exact" -> "read"
      [] op = "metadata"   -> "read metadata"

\* C13: a find that ended in failure at a file-system step (open, probe
\* read, metadata query, exact read of the remainder) returned Io with the
\* mapped path and the action "open", "read", "read metadata" or "read"
\* respectively; a file that does not exist fails at "open"; and Io is
\* returned for nothing else.
C13_FileSystemFailureIsIo ==
    /\ (FindEnded /\ ~Found /\ LastOp \in FileSystemOps) =>
          /\ find_result.tag = "Io"
          /\ find_result.action = ActionOf(LastOp)
          /\ find_result.path = sha1_path(SampleId, SampleRoot)
    /\ (FindEnded /\ ~file.exists) =>
          (find_result.tag = "Io" /\ find_result.action = "open")
    /\ (FindEnded /\ find_result.tag = "Io") => LastOp \in FileSystemOps

\* C13 witness: the exact read of the remainder failed and find returned Io
\* with the action "read"
C13_Witness ==
    /\ FindEnded
    /\ LastOp = "read_exact"
    /\ find_result.tag = "Io"
    /\ find_result.action = "read"
    /\ Len(find_result.path) = Len(SampleRoot) + 2

IsPrefix(s, t) == Len(s) <= Len(t) /\ SubSeq(t, 1, Len(s)) = s

\* C14: find returns a handle exactly when it returns Ok, and then open,
\* probe read, probe decompression and header parsing were all done, and
\* for Tree, Commit and Tag the metadata query and, unless the probe read
\* the whole file, the exact read too; the handle's kind, size and
\* header_size are the values parse_header returns on the probe output, and
\* so those the file's header encodes, and header_size is at most the number
\* of bytes the probe produced.  A find that failed at any step returned no
\* handle.
C14_HandleOnlyOnFullSuccess ==
    /\ Found <=> obj # NoObject
    /\ Found =>
          /\ IsPrefix(ProbeOps, Ops)
          /\ Ops = ProbeOps \o
                   (IF ~NonBlob THEN <<>>
                    ELSE IF find_io.bytes_read = FSize THEN <<"metadata">>
                    ELSE <<"metadata", "read_exact">>)
          /\ LET hdr == parse_header(find_io.probe_out)
             IN  /\ hdr.tag = "Ok"
                 /\ obj.kind = hdr.kind
                 /\ obj.size = hdr.size
                 /\ obj.header_size = hdr.header_size
          /\ obj.kind = file.kind
          /\ obj.size = file.declared
          /\ obj.header_size = Len(EncodeHeader(file.kind, file.declared))
          /\ obj.header_size <= Len(find_io.probe_out)

\* C14 witness: a handle for a Tag whose header is all the probe produced,
\* returned after the exact read of the remainder
C14_Witness ==
    /\ Found
    /\ obj.kind = "Tag"
    /\ LastOp = "read_exact"
    /\ obj.header_size = Len(find_io.probe_out)

ParserRan(call) == call.outcome \in {"Ok", "ParseTag"}

\* C15: no byte exposed by extending a buffer's length is read before it is
\* written: the compressed buffer of a handle holds no unwritten byte, and
\* when parsed() has run the completion branch, every byte of
\* decompressed[header_size..] it handed to the structured parser was
\* written by the decompressor.
C15_NoUnwrittenByteIsRead ==
    /\ Found => \A j \in 1..Len(obj.compressed_data) : obj.compressed_data[j] # UNINITB
    /\ \A i \in 1..Len(calls) :
          (calls[i].inflated /\ ParserRan(calls[i])) =>
              \A j \in 1..Len(calls[i].bytes) : calls[i].bytes[j] # Uninit

---------------------------------------------------------------------------
(* Claims about the steps of find and concurrent calls (SpecCalls)         *)

StepOrder == <<"open", "read", "once", "parse_header", "metadata", "read_exact">>
Rank(pc) == IF pc = "done" THEN Len(StepOrder) + 1
            ELSE CHOOSE i \in 1..Len(StepOrder) : StepOrder[i] = pc
Failed(call) == call.result.tag \notin {"Pending", "Ok"}

\* what one step may do to one call
StepInOrder(before, after) ==
    \* a call that returned does nothing more
    /\ before.pc = "done" => after = before
    \* a step is taken once: the call moves on, to the next step of the
    \* fixed order or out of the call
    /\ after # before =>
          /\ before.result = Pending
          /\ \/ after.pc = "done"
             \/ Rank(after.pc) = Rank(before.pc) + 1 /\ after.result = Pending
    \* a failure ends the call at the step that failed
    /\ Failed(after) => after.pc = "done"
    /\ (Failed(after) /\ ~Failed(before) /\ after.result.tag = "Io") =>
          after.result.action = ActionOf(before.pc)
    \* the metadata query and the exact read are for Tree, Commit and Tag
    /\ after.pc \in {"metadata", "read_exact"} => ~IsDeferred(after.hdr.kind)
    \* Ok comes from the last step of the kind's sequence
    /\ (after.result = FindOk /\ before.result = Pending) =>
          before.pc = (IF IsDeferred(after.hdr.kind) THEN "parse_header"
                       ELSE IF after.bytes_read = FSize THEN "metadata"
                       ELSE "read_exact")

\* C16: in every execution of find the steps open, probe read, single-shot
\* probe decompression, header parse and, for Tree, Commit and Tag only,
\* metadata query and exact read are each taken at most once and in this
\* order; the first step that fails ends the call, and a call that has
\* returned takes no step.
C16_StepsOnceInOrder ==
    [][\A p \in Callers : StepInOrder(callers[p], callers'[p])]_vars

\* C16 witness: one call failed at the exact read, the last step of the
\* order, while another stands before its metadata query
C16_Witness ==
    /\ callers # <<>>
    /\ callers[1].pc = "done"
    /\ callers[1].fault = "read_exact"
    /\ callers[1].result.tag = "Io"
    /\ callers[2].pc = "metadata"

\* C17: the store's file is never changed by find, and whatever the
\* interleaving of the steps of concurrent calls, a call that has returned
\* has the outcome (result and handle) of a call that ran alone with the
\* same file-system results.
C17_CallsDoNotInterfere ==
    /\ [](callers # <<>> =>
            \A p \in Callers :
                callers[p].pc = "done" =>
                    LET alone == FindOutcome(file, callers[p].fault,
                                             callers[p].bytes_read)
                    IN  /\ callers[p].result = alone.result
                        /\ callers[p].obj = alone.obj)
    /\ [][file' = file]_vars

\* C17 witness: one call returned a handle while the other, which read a
\* different number of bytes in its probe, stands before its exact read
C17_Witness ==
    /\ callers # <<>>
    /\ callers[1].pc = "done"
    /\ callers[1].result = FindOk
    /\ callers[2].pc = "read_exact"
    /\ callers[2].bytes_read # callers[1].bytes_read

---------------------------------------------------------------------------
(* Claims about the completion branch of parsed() (Spec)                   *)

\* the first parsed() call ran the completion branch, all_till_done
\* returned Ok and the branch was left
FirstCallCompleted ==
    /\ Found /\ NonBlob
    /\ WellFormed(file)
    /\ Len(calls) = 1
    /\ calls[1].inflated
    /\ calls[1].outcome \notin {"Decompress", "panic_debug_assert"}

\* C18: when parsed() has run the completion branch on a Tree, Commit or Tag
\* handle that was not complete and all_till_done returned without error,
\* the handle's flag is true, its decompressed buffer is header_size + size
\* bytes long and its compressed buffer is empty.  Stated for files whose
\* deflate stream is whole.
C18_CompletionLeavesHandleComplete ==
    FirstCallCompleted =>
        /\ obj.is_decompressed
        /\ Len(obj.decompressed_data) = obj.header_size + obj.size
        /\ obj.compressed_data = <<>>

\* the calls in which all_till_done ran and returned Ok
CompletedDrives(cs) ==
    {i \in 1..Len(cs) : cs[i].inflated /\ cs[i].outcome # "Decompress"}

\* C19: over the parsed() calls made on one handle, failing ones included,
\* the flag never goes from true to false; kind, size, header_size and the
\* retained path never change; only the first call can change the handle at
\* all; and decompression reaches completion (all_till_done returns Ok) in
\* at most one of the calls.
C19_OneCompletionTransition ==
    [][Found =>
          /\ obj.is_decompressed => obj'.is_decompressed
          /\ obj'.kind = obj.kind
          /\ obj'.size = obj.size
          /\ obj'.header_size = obj.header_size
          /\ obj'.path = obj.path
          /\ Len(calls) >= 1 => obj' = obj
          /\ Cardinality(CompletedDrives(calls')) <= 1]_vars

\* C19 witness: the first call completed the handle and the second found it
\* complete
C19_Witness ==
    /\ Found
    /\ Len(calls) = 2
    /\ ~calls[1].complete_at_entry /\ calls[1].inflated /\ calls[1].outcome = "Ok"
    /\ calls[2].complete_at_entry /\ ~calls[2].inflated
    /\ obj.is_decompressed

\* the compressed input of handle o ends before header_size + size bytes
\* are produced, and without the end-of-stream marker
InputExhausted(o) ==
    LET total_size == o.header_size + o.size
        r == Inflate(o.compressed_data, 1, <<>>, total_size)
    IN  ~r.err /\ ~r.is_done /\ Len(r.out) < total_size

\* C20: a parsed() call on a Tree, Commit or Tag handle that is not complete
\* and whose compressed input is exhausted before header_size + size bytes
\* are produced, the stream not having ended, returns Decompress and no
\* structured object.
C20_ExhaustedInputIsDecompressError ==
    [][(Found /\ NonBlob /\ ~obj.is_decompressed /\ InputExhausted(obj)) =>
          /\ Len(calls') = Len(calls) + 1
          /\ calls'[Len(calls')].outcome = "Decompress"
          /\ calls'[Len(calls')].value = <<>>
          /\ calls'[Len(calls')].bytes = <<>>]_vars

\* C20 witness: a Tag whose file lacks the end of its stream; the call
\* returned Decompress and left the buffer written only in part
C20_Witness ==
    /\ Found
    /\ obj.kind = "Tag"
    /\ Len(calls) = 1
    /\ calls[1].outcome = "Decompress"
    /\ obj.compressed_data # <<>>
    /\ \A j \in 1..Len(obj.compressed_data) : obj.compressed_data[j].t = "data"
    /\ \E j \in 1..Len(obj.decompressed_data) : obj.decompressed_data[j] = Uninit

---------------------------------------------------------------------------
(* Claims about the payload slice and failed completions (Spec)            *)

\* the file is a whole stream of a header and exactly the payload it declares
Faithful(f) == WellFormed(f) /\ f.declared = Len(f.payload)

\* C21: every slice decompressed[header_size..] that parsed() handed to the
\* tag parser is exactly the declared size long and holds the object's
\* payload and nothing else, whether the handle was complete after find or
\* was completed inside parsed().  Stated for files that are a whole stream
\* of a header and the payload it declares.
C21_SliceIsThePayload ==
    (Found /\ Faithful(file)) =>
        \A i \in 1..Len(calls) :
            ParserRan(calls[i]) =>
                /\ Len(calls[i].bytes) = obj.size
                /\ calls[i].bytes = file.payload

LastCall(cs) == cs[Len(cs)]

\* C22: a parsed() call that fails with Decompress leaves the flag false and
\* the compressed buffer as it was, and the call after it runs the
\* completion branch again and hands no bytes of the partly written buffer
\* to a parser.
C22_FailedCompletionStaysPending ==
    /\ [][(Found /\ Len(calls') = Len(calls) + 1
                 /\ LastCall(calls').outcome = "Decompress") =>
             /\ ~obj'.is_decompressed
             /\ obj'.compressed_data = obj.compressed_data]_vars
    /\ [](\A i \in 1..(Len(calls) - 1) :
             calls[i].outcome = "Decompress" =>
                 /\ ~calls[i + 1].complete_at_entry
                 /\ calls[i + 1].inflated
                 /\ calls[i + 1].outcome = "Decompress"
                 /\ calls[i + 1].bytes = <<>>)

\* C22 witness: two calls on a handle with compressed input, both failed
\* with Decompress, and the handle is still pending with its input
C22_Witness ==
    /\ Found
    /\ Len(calls) = 2
    /\ calls[1].outcome = "Decompress"
    /\ calls[2].outcome = "Decompress"
    /\ calls[2].inflated
    /\ ~obj.is_decompressed
    /\ obj.compressed_data # <<>>

=============================================================================
